---- MODULE Spec2Model ----
(***************************************************************************)
(* The Express server of src/server.js: configuration and start-up, the    *)
(* polling helper waitForRunCompletion and the POST /ask handler with its  *)
(* two-pass fallback.  The assistant service (threads, runs, speech) is    *)
(* the environment: every call either returns or throws, and the status a  *)
(* run reports at each fetch is chosen by the service.                     *)
(*                                                                         *)
(* One action is one upstream call together with the synchronous code the  *)
(* handler runs when the call settles, up to the next await.               *)
(*                                                                         *)
(* JavaScript values: a string is a TLA+ string; a value that may be       *)
(* undefined or null is a sequence of length 0 (absent) or 1 (present);    *)
(* a number that may be NaN is a record [nan, n].                          *)
(***************************************************************************)
EXTENDS Integers, Sequences, FiniteSets, TLC

\* ------------------------------------------------------------------ bounds

\* Longest text the assistant service generates, and longest user text.
MaxLen == 2

\* Status fetches of one run that may still report a waiting status.
MaxPolls == 2

\* Requests the clients may have in flight.
NumReqs == 2

Reqs == 1..NumReqs

\* ------------------------------------------------- JavaScript value helpers

Undefined == <<>>

Some(v) == <<v>>

NaN == [nan |-> TRUE, n |-> 0]

Num(n) == [nan |-> FALSE, n |-> n]

\* x < t and x >= t for a number x and a possibly-NaN t: both false for NaN.
JsLess(x, t) == ~t.nan /\ x < t.n

JsAtLeast(x, t) == ~t.nan /\ x >= t.n

\* !s for a string.
Falsy(s) == s = ""

\* Variant of OrElse: only an absent value is replaced (?? instead of ||).
OrElse_nullish(opt, dflt) == IF opt = Undefined THEN dflt ELSE opt[1]

\* opt || dflt, for an optional string.
OrElse(opt, dflt) == IF opt = Undefined \/ Falsy(opt[1]) THEN dflt ELSE opt[1]

RECURSIVE Rep(_, _)
Rep(c, n) == IF n = 0 THEN "" ELSE c \o Rep(c, n - 1)

\* ----------------------------------------------------------- configuration

DefaultFallbackReplyMinLength == 20

DefaultSpeechReplyMinLength == 10

DefaultClarificationPrompt == "The previous answer was not detailed enough. Please try answering again using your broader knowledge and context from our conversation so far."

Placeholder == "No useful answer from fallback."

FallbackMinLengths ==
    {NaN} \cup {Num(n) : n \in 0..MaxLen} \cup {Num(DefaultFallbackReplyMinLength)}

SpeechMinLengths ==
    {NaN} \cup {Num(n) : n \in 0..MaxLen}
          \cup {Num(DefaultSpeechReplyMinLength), Num(Len(Placeholder) + 1)}

FallbackStrategies == {"RETRY_NO_ADDITIONAL_PROMPT", "RETRY_WITH_CLARIFICATION_PROMPT"}

\* ------------------------------------------------------------------- state

VARIABLES
    apiKey,                      \* process.env.OPENAI_API_KEY ("" when unset)
    assistantId,                 \* process.env.ASSISTANT_ID ("" when unset)
    vectorStoreId,               \* process.env.OPENAI_VECTOR_STORE_ID ("" when unset)
    fallbackReplyMinLength,
    speechReplyMinLength,
    fallbackStrategy,
    fallbackClarificationPrompt,
    server,                      \* "starting", "listening" or "exited"
    clients,                     \* the requests the clients send
    ask,                         \* per request: the /ask handler's locals and position
    threads,                     \* the service's threads: thread id -> messages, oldest first
    runs,                        \* the service's runs: run id -> thread, tool choice
    token,                       \* per request: the /token handler's locals and position
    client                       \* the browser page: the React state of App and its controls

config == <<apiKey, assistantId, vectorStoreId, fallbackReplyMinLength,
            speechReplyMinLength, fallbackStrategy, fallbackClarificationPrompt>>

vars == <<config, server, clients, ask, threads, runs, token, client>>

\* --------------------------------------------------- the assistant service

WaitingStatuses == {"queued", "in_progress", "requires_action"}

FailureStatuses == {"failed", "expired", "cancelled"}

RunStatuses == WaitingStatuses \cup FailureStatuses \cup {"completed", "incomplete"}

LastErrors == {Undefined, Some([code |-> "server_error", message |-> "Sorry, something went wrong."])}

\* What runs.retrieve may return when the caller has fetched the run `fetches`
\* times before: a waiting status only while fetches < MaxPolls, a required action
\* only with requires_action, a last_error only with a failure status.
RetrieveResults(fetches) ==
    { x \in [status : RunStatuses,
             required_action : {Undefined, Some("submit_tool_outputs")},
             last_error : LastErrors] :
          /\ x.status \in WaitingStatuses => fetches < MaxPolls
          /\ x.required_action # Undefined => x.status = "requires_action"
          /\ x.last_error # Undefined => x.status \in FailureStatuses }

TextPart(s) == [type |-> "text", text |-> s]

ImagePart == [type |-> "image_file", text |-> ""]

UserMessage(s) == [role |-> "user", content |-> <<TextPart(s)>>]

AssistantMessage(part) == [role |-> "assistant", content |-> <<part>>]

AssistantTexts == {Rep("a", n) : n \in 0..MaxLen}

\* What a run has added to its thread by the time it reports `status`: nothing
\* while it waits; afterwards nothing, or one assistant message.
Generated(status) ==
    IF status \in WaitingStatuses THEN {Undefined}
    ELSE {Undefined} \cup {Some(AssistantMessage(TextPart(t))) : t \in AssistantTexts}
                     \cup {Some(AssistantMessage(ImagePart))}

\* Variant of ListLatest: the thread is a module-level variable that the latest
\* request has overwritten, so the newest thread is listed.
ListLatest_moduleLevel(threadId) ==
    LET ms == threads[Len(threads)]
    IN  [data |-> IF ms = <<>> THEN <<>> ELSE <<ms[Len(ms)]>>]

\* messages.list(threadId, {order: 'desc', limit: 1})
ListLatest(threadId) ==
    LET ms == threads[threadId]
    IN  [data |-> IF ms = <<>> THEN <<>> ELSE <<ms[Len(ms)]>>]

ConnectionError == "Connection error."

\* ------------------------------------------------ the /ask handler's steps

InitialAsk ==
    [pc |-> "idle", userText |-> Undefined, thread |-> 0, reply |-> "", run |-> 0,
     messages |-> Undefined, runStatus |-> Undefined, base64Audio |-> Undefined,
     pass |-> 0, res |-> <<>>, console |-> <<>>, calls |-> <<>>, polls |-> <<>>,
     answer |-> Undefined]

\* One call to the service issued by the handler whose locals are a, with the
\* thread and run identifiers the call is given.
CallRecord(a, op, arg) ==
    [op |-> op,
     thread_id |-> IF op \in {"threads.create", "audio.speech.create"} THEN 0 ELSE a.thread,
     run_id |-> IF op \in {"runs.retrieve", "runs.submitToolOutputs"} THEN a.run ELSE 0,
     arg |-> arg]

\* calls: the calls the handler itself has issued so far, in order.
Call(a, op, arg) == [a EXCEPT !.calls = Append(@, CallRecord(a, op, arg))]

\* polls: the calls the running waitForRunCompletion has issued so far, in order.
PollCall(a, op, arg) == [a EXCEPT !.polls = Append(@, CallRecord(a, op, arg))]

\* answer: how the latest awaited call settled: it threw, or it returned (with
\* the run status and last_error it reported, for runs.retrieve).
Settled(a, threw, status, last_error) ==
    [a EXCEPT !.answer = Some([threw |-> threw, status |-> status,
                               last_error |-> last_error])]

Answered(a, threw, status) == Settled(a, threw, status, Undefined)

Returned(a) == Answered(a, FALSE, "")

Threw(a) == Answered(a, TRUE, "")

\* console.log / console.error of the route, without the text of caught errors.
Log(a, msg, value) == [a EXCEPT !.console = Append(@, [msg |-> msg, value |-> value])]

\* res.status(status).json(body)
Respond(a, status, body) ==
    [a EXCEPT !.res = Append(@, [status |-> status, body |-> body]), !.pc = "done"]

\* Variant of OuterCatch: the route has no catch; the rejection of the async
\* handler is unhandled and no response is sent.
OuterCatch_unhandled(a, message) == [a EXCEPT !.pc = "rejected"]

\* catch (err) of the route
OuterCatch(a, message) ==
    Respond(a, 500, [error |-> "Failed to process assistant response", details |-> message])

\* res.json({ text: reply, audio: ... })
SendReply(a) ==
    Respond(a, 200,
            [text |-> a.reply,
             audio |-> IF a.base64Audio # Undefined /\ ~Falsy(a.base64Audio[1])
                       THEN Some("data:audio/mp3;base64," \o a.base64Audio[1])
                       ELSE Undefined])

\* Variant of SpeechCatch: the speech error reaches the route's catch.
SpeechCatch_rethrow(a) == OuterCatch(a, ConnectionError)

\* Variant of SpeechCatch: a failed synthesis is tried once more.
SpeechCatch_retry(a) ==
    IF Len(SelectSeq(a.calls, LAMBDA c : c.op = "audio.speech.create")) < 2
    THEN [a EXCEPT !.pc = "speech_create"]
    ELSE SendReply(a)

\* Variant of SpeechCatch: the catch answers 500 and does not return, so the
\* handler goes on to res.json.
SpeechCatch_respondsToo(a) == SendReply(OuterCatch(a, ConnectionError))

\* catch (speechError): the error is logged, the reply is sent without audio.
SpeechCatch(a) == SendReply(a)

\* Variant of WantsSpeech: any non-empty reply is spoken.
WantsSpeech_anyReply(reply) == ~Falsy(reply)

\* if (reply && reply.length >= speechReplyMinLength)
WantsSpeech(reply) == ~Falsy(reply) /\ JsAtLeast(Len(reply), speechReplyMinLength)

\* Variant of SpeechCheck: a Pass 2 reply below the minimum starts another run.
SpeechCheck_fallbackAgain(a) ==
    LET b == [a EXCEPT !.pass = 0, !.base64Audio = Undefined]
    IN  IF a.pass = 2 /\ JsLess(Len(a.reply), fallbackReplyMinLength)
        THEN [a EXCEPT !.pc = "pass2_runs_create"]
        ELSE IF WantsSpeech(b.reply) THEN [b EXCEPT !.pc = "speech_create"] ELSE SendReply(b)

\* let base64Audio = null; then the speech test.  The handler has left both passes.
SpeechCheck(a) ==
    LET b == [a EXCEPT !.pass = 0, !.base64Audio = Undefined]
    IN  IF WantsSpeech(b.reply) THEN [b EXCEPT !.pc = "speech_create"] ELSE SendReply(b)

\* Variant of Pass1Enabled: Pass 1 runs whether or not a vector store is set.
Pass1Enabled_always == TRUE

\* if (vectorStoreId)
Pass1Enabled == ~Falsy(vectorStoreId)

\* Variant of NeedsFallback: the length test is <= instead of <.
NeedsFallback_atMost(reply) ==
    Falsy(reply) \/ (~fallbackReplyMinLength.nan /\ Len(reply) <= fallbackReplyMinLength.n)

\* Variant of NeedsFallback: only the length is tested, not the emptiness.
NeedsFallback_lengthOnly(reply) == JsLess(Len(reply), fallbackReplyMinLength)

\* if (!reply || reply.length < fallbackReplyMinLength)
NeedsFallback(reply) == Falsy(reply) \/ JsLess(Len(reply), fallbackReplyMinLength)

\* Variant of WantsClarification: the strategy is not consulted.
WantsClarification_anyStrategy == ~Falsy(fallbackClarificationPrompt)

\* if (fallbackStrategy === "RETRY_WITH_CLARIFICATION_PROMPT" && fallbackClarificationPrompt)
WantsClarification ==
    fallbackStrategy = "RETRY_WITH_CLARIFICATION_PROMPT" /\ ~Falsy(fallbackClarificationPrompt)

FallbackCheck(a) ==
    IF NeedsFallback(a.reply)
    THEN [Log(a, "Reply too short. Falling back...", ToString(Len(a.reply)))
            EXCEPT !.pass = 2,
                   !.pc = IF WantsClarification THEN "clarification_create"
                          ELSE "pass2_runs_create"]
    ELSE SpeechCheck(a)

\* catch (vectorError) of Pass 1
Pass1Catch(a) == FallbackCheck([Log(a, "Error during PASS 1:", "") EXCEPT !.reply = ""])

\* Variant of Throw: Pass 1 has no try of its own.
Throw_noPass1Try(a, message) ==
    OuterCatch([a EXCEPT !.runStatus = Undefined, !.polls = <<>>], message)

\* Variant of Throw: Pass 2 has a try of its own that keeps the placeholder.
Throw_pass2Try(a, message) ==
    LET b == [a EXCEPT !.runStatus = Undefined, !.polls = <<>>]
    IN  IF a.pass = 1 THEN Pass1Catch(b)
        ELSE IF a.pass = 2 THEN SpeechCheck([b EXCEPT !.reply = Placeholder])
        ELSE OuterCatch(b, message)

\* An error thrown at the handler's position: inside the try of Pass 1 it is
\* caught there, anywhere else by the route's catch.
Throw(a, message) ==
    LET b == [a EXCEPT !.runStatus = Undefined, !.polls = <<>>]
    IN  IF a.pass = 1 THEN Pass1Catch(b) ELSE OuterCatch(b, message)

\* messages.data[0]?.content[0]?.text?.value
FirstText(messages) ==
    IF messages.data = <<>> THEN Undefined
    ELSE LET content == messages.data[1].content
         IN  IF content = <<>> \/ content[1].type # "text" THEN Undefined
             ELSE Some(content[1].text)

\* `Run ${runId} ${status}. ${errorDetails}`
RunFailedMessage(runId, runStatus) ==
    "Run " \o ToString(runId) \o " " \o runStatus.status \o ". "
    \o (IF runStatus.last_error # Undefined
        THEN "Code: " \o runStatus.last_error[1].code
             \o ", Message: " \o runStatus.last_error[1].message
        ELSE "No specific error details provided.")

\* Variant of AfterLoop: an expired run is not a failure.
AfterLoop_expiredReturns(a) ==
    LET rs == a.runStatus[1]
    IN  IF rs.status \in FailureStatuses \ {"expired"}
        THEN Throw(a, RunFailedMessage(a.run, rs))
        ELSE [a EXCEPT !.runStatus = Undefined, !.polls = <<>>,
                       !.pc = IF a.pass = 1 THEN "pass1_messages_list"
                              ELSE "pass2_messages_list"]

\* waitForRunCompletion after its loop: throw on a failure status, else return
\* to the pass that called it.
AfterLoop(a) ==
    LET rs == a.runStatus[1]
    IN  IF rs.status \in FailureStatuses
        THEN Throw(a, RunFailedMessage(a.run, rs))
        ELSE [a EXCEPT !.runStatus = Undefined, !.polls = <<>>,
                       !.pc = IF a.pass = 1 THEN "pass1_messages_list"
                              ELSE "pass2_messages_list"]

\* Variant of LoopCheck: the loop gives up after the second call of the wait.
LoopCheck_ceiling(a) ==
    IF a.runStatus[1].status \in WaitingStatuses /\ Len(a.polls) < 2
    THEN [a EXCEPT !.pc = "sleep"]
    ELSE AfterLoop(a)

\* while (["queued", "in_progress", "requires_action"].includes(runStatus.status))
LoopCheck(a) ==
    IF a.runStatus[1].status \in WaitingStatuses THEN [a EXCEPT !.pc = "sleep"]
    ELSE AfterLoop(a)

\* ---------------------------------------------------------- speech bytes

B64Alphabet ==
    <<"A","B","C","D","E","F","G","H","I","J","K","L","M","N","O","P",
      "Q","R","S","T","U","V","W","X","Y","Z","a","b","c","d","e","f",
      "g","h","i","j","k","l","m","n","o","p","q","r","s","t","u","v",
      "w","x","y","z","0","1","2","3","4","5","6","7","8","9","+","/">>

B64Char(n) == B64Alphabet[n + 1]

\* Buffer.from(audioBuffer).toString("base64")
RECURSIVE Base64(_)
Base64(bytes) ==
    IF Len(bytes) = 0 THEN ""
    ELSE IF Len(bytes) = 1
    THEN B64Char(bytes[1] \div 4) \o B64Char((bytes[1] % 4) * 16) \o "=="
    ELSE IF Len(bytes) = 2
    THEN B64Char(bytes[1] \div 4)
         \o B64Char((bytes[1] % 4) * 16 + bytes[2] \div 16)
         \o B64Char((bytes[2] % 16) * 4) \o "="
    ELSE B64Char(bytes[1] \div 4)
         \o B64Char((bytes[1] % 4) * 16 + bytes[2] \div 16)
         \o B64Char((bytes[2] % 16) * 4 + bytes[3] \div 64)
         \o B64Char(bytes[3] % 64)
         \o Base64(SubSeq(bytes, 4, Len(bytes)))

\* The bodies the speech endpoint may answer with: empty, or the start of an MP3.
AudioBuffers == {<<>>, <<73, 68>>, <<73, 68, 51, 4>>}

\* ----------------------------------------------------------------- inputs

\* req.body.text: absent, empty, or a text of 1 or MaxLen characters.
BodyTexts == {Undefined, Some("")} \cup {Some(Rep("u", n)) : n \in {1, MaxLen}}

\* Variant of MissingText: only an absent text is refused, not an empty one.
MissingText_absentOnly(text) == text = Undefined

\* if (!userText)
MissingText(text) == text = Undefined \/ Falsy(text[1])

\* --------------------------------------------- the /token handler's steps

InitialToken == [pc |-> "idle", response |-> Undefined, data |-> Undefined, res |-> <<>>]

\* The HTTP statuses the realtime sessions endpoint may answer with.
UpstreamStatuses == {200, 401, 500}

\* response.ok
Ok(response) == response.status \in 200..299

\* The JSON bodies the sessions endpoint may answer with: on success a session
\* with a client_secret carrying a value, one whose client_secret has no value,
\* or one without client_secret; otherwise an error object.
SessionBodies(response) ==
    IF Ok(response)
    THEN {[client_secret |-> Some([value |-> Some("ek_1")]), error |-> Undefined],
          [client_secret |-> Some([value |-> Undefined]), error |-> Undefined],
          [client_secret |-> Undefined, error |-> Undefined]}
    ELSE {[client_secret |-> Undefined, error |-> Some("invalid_api_key")]}

\* catch (err) of the /token route
TokenCatch(t) ==
    [t EXCEPT !.res = Append(@, [status |-> 500,
                                 body |-> [error |-> "Failed to generate token"]]),
              !.pc = "done"]

\* ------------------------------------------------------ the browser client

\* The server's variables, which no step of the page changes.
serverVars == <<config, server, clients, ask, threads, runs, token>>

\* startSession invocations the page may make.
MaxSessions == 2

\* Text messages the user may send from the session controls.
MaxSends == 1

\* Events the page may receive on the data channels between two resets of
\* the event log.
MaxEvents == 1

Sessions == 1..MaxSessions

\* null, for the dataChannel state and the peerConnection ref
Null == 0

\* A text is the sequence of its characters.
WhiteSpace == {" "}

Keys == {" ", "a"}

RECURSIVE TextsOfLen(_)
TextsOfLen(n) ==
    IF n = 0 THEN {<<>>}
    ELSE {Append(t, k) : t \in TextsOfLen(n - 1), k \in Keys}

\* What the user may have typed into the input of SessionActive.
Typed == UNION {TextsOfLen(n) : n \in 0..MaxLen}

RECURSIVE TrimStart(_)
TrimStart(s) ==
    IF s # <<>> /\ Head(s) \in WhiteSpace THEN TrimStart(Tail(s)) ELSE s

RECURSIVE TrimEnd(_)
TrimEnd(s) ==
    IF s # <<>> /\ s[Len(s)] \in WhiteSpace
    THEN TrimEnd(SubSeq(s, 1, Len(s) - 1))
    ELSE s

\* String.prototype.trim
Trim(s) == TrimEnd(TrimStart(s))

\* The greeting the "open" listener sends (shortened).
Greeting == <<"H", "e", "y">>

\* part.text.value of an assistant text part (shortened).
AssistantText == <<"o", "k">>

\* The useState and useRef initial values of App, SessionStopped and
\* SessionActive, with nothing started: sessions is the position of each
\* startSession invocation, pcs and channels are the RTCPeerConnection and
\* the RTCDataChannel each invocation creates, and calls lists the
\* sendTextMessage calls made so far.
InitialClient ==
    [isClient          |-> FALSE,
     isSessionActive   |-> FALSE,
     events            |-> <<>>,
     dataChannel       |-> Null,
     transcriptBubbles |-> <<>>,
     showOverlay       |-> TRUE,
     peerConnection    |-> Null,
     isActivating      |-> FALSE,
     message           |-> <<>>,
     sessions          |-> [s \in Sessions |-> "idle"],
     pcs               |-> [s \in Sessions |-> "none"],
     channels          |-> [s \in Sessions |-> [readyState |-> "none", sent |-> <<>>]],
     calls             |-> <<>>]

\* SessionControls renders SessionActive or SessionStopped: when
\* isSessionActive changes, one unmounts and the other mounts with its
\* initial state.
SetIsSessionActive(c, active) ==
    IF c.isSessionActive = active THEN c
    ELSE [c EXCEPT !.isSessionActive = active,
                   !.isActivating = FALSE,
                   !.message = <<>>]

\* RTCDataChannel.send throws InvalidStateError unless the channel is open.
SendThrows(c, d) == c.channels[d].readyState # "open"

\* sendClientEvent(message), with dataChannel as the calling render saw it
sendClientEvent(c, d, message) ==
    IF d # Null
    THEN [c EXCEPT !.channels[d].sent = Append(@, message),
                   !.events = <<message.type>> \o @]
    ELSE c

\* sendTextMessage(message), with dataChannel as the calling render saw it;
\* the first send's exception leaves the function.
sendTextMessage(c, d, message, from) ==
    LET event == [type |-> "conversation.item.create", text |-> Some(message)]
        bubbled == [c EXCEPT !.transcriptBubbles =
                                 Append(@, [text |-> message, sender |-> "user"]),
                             !.calls = Append(@, [from |-> from,
                                                  message |-> message,
                                                  dataChannel |-> d])]
    IN  IF d # Null /\ SendThrows(c, d)
        THEN bubbled
        ELSE sendClientEvent(sendClientEvent(bubbled, d, event), d,
                             [type |-> "response.create", text |-> Undefined])

\* handleSendClientEvent of SessionActive: setMessage("") is not reached
\* when sendTextMessage throws.
handleSendClientEvent(c, from) ==
    LET d == c.dataChannel
        sent == sendTextMessage(c, d, c.message, from)
    IN  IF d # Null /\ SendThrows(c, d)
        THEN sent
        ELSE [sent EXCEPT !.message = <<>>]

\* The position of the first startSession invocation not made yet.
IdleSession(c) == CHOOSE s \in Sessions :
                      /\ c.sessions[s] = "idle"
                      /\ \A t \in Sessions : c.sessions[t] = "idle" => s <= t

\* startSession up to its first await
startSession(c) ==
    [c EXCEPT !.showOverlay = FALSE,
              !.sessions[IdleSession(c)] = "fetchToken"]

\* ------------------------------------------------------------------- Init

Init ==
    /\ apiKey \in {"", "sk-test"}
    /\ assistantId \in {"", "asst_1"}
    /\ vectorStoreId \in {"", "vs_1"}
    /\ fallbackReplyMinLength \in FallbackMinLengths
    /\ speechReplyMinLength \in SpeechMinLengths
    /\ fallbackStrategy \in FallbackStrategies
    /\ fallbackClarificationPrompt = DefaultClarificationPrompt
    /\ server = "starting"
    /\ clients = {1}
    /\ ask = [r \in Reqs |-> InitialAsk]
    /\ threads = <<>>
    /\ runs = <<>>
    /\ token = [r \in Reqs |-> InitialToken]
    /\ client = InitialClient

\* ---------------------------------------------------------------- actions

\* Variant of Startup: only the API key is validated.
Startup_apiKeyOnly ==
    /\ server = "starting"
    /\ server' = IF Falsy(apiKey) THEN "exited" ELSE "listening"
    /\ UNCHANGED <<config, token, client, clients, ask, threads, runs>>

\* Module top level: validate the configuration, then listen.
Startup ==
    /\ server = "starting"
    /\ server' = IF Falsy(apiKey) \/ Falsy(assistantId) THEN "exited" ELSE "listening"
    /\ UNCHANGED <<config, token, client, clients, ask, threads, runs>>

\* POST /ask arrives: read and validate the text.
AskReceive(r) ==
    /\ server = "listening"
    /\ r \in clients
    /\ ask[r].pc = "idle"
    /\ \E text \in BodyTexts :
         ask' = [ask EXCEPT ![r] =
                   LET a == [@ EXCEPT !.userText = text]
                   IN  IF MissingText(text)
                       THEN Respond(a, 400, [error |-> "Missing text in request body"])
                       ELSE [a EXCEPT !.pc = "threads_create"]]
    /\ UNCHANGED <<config, token, client, server, clients, threads, runs>>

\* Variant of ThreadsCreate: the thread is kept at module level, so a request
\* that finds a thread already created uses it.
ThreadsCreate_moduleLevel(r) ==
    /\ ask[r].pc = "threads_create"
    /\ IF threads = <<>>
       THEN /\ threads' = Append(threads, <<>>)
            /\ ask' = [ask EXCEPT ![r] =
                         [Returned(Call(@, "threads.create", ""))
                            EXCEPT !.thread = 1, !.pc = "messages_create"]]
       ELSE /\ ask' = [ask EXCEPT ![r] = [@ EXCEPT !.thread = 1, !.pc = "messages_create"]]
            /\ UNCHANGED threads
    /\ UNCHANGED <<config, token, client, server, clients, runs>>

\* const thread = await openai.beta.threads.create()
ThreadsCreate(r) ==
    /\ ask[r].pc = "threads_create"
    /\ LET a == Call(ask[r], "threads.create", "")
       IN  \/ /\ threads' = Append(threads, <<>>)
              /\ ask' = [ask EXCEPT ![r] =
                           [Returned(a) EXCEPT !.thread = Len(threads) + 1,
                                               !.pc = "messages_create"]]
           \/ /\ ask' = [ask EXCEPT ![r] = Throw(Threw(a), ConnectionError)]
              /\ UNCHANGED threads
    /\ UNCHANGED <<config, token, client, server, clients, runs>>

\* The user message is appended; then reply = "" and the choice of the first pass.
MessagesCreate(r) ==
    /\ ask[r].pc = "messages_create"
    /\ LET a == Call(ask[r], "messages.create", ask[r].userText[1])
       IN  \/ /\ threads' = [threads EXCEPT ![a.thread] =
                               Append(@, UserMessage(a.userText[1]))]
              /\ ask' = [ask EXCEPT ![r] =
                           LET b == [Returned(a) EXCEPT !.reply = ""]
                           IN  IF Pass1Enabled
                               THEN [Log(b, "Attempting PASS 1: Vector Store Search", "")
                                       EXCEPT !.pass = 1, !.pc = "pass1_runs_create"]
                               ELSE FallbackCheck(
                                        Log(b, "Skipping PASS 1: No vector store configured.",
                                            ""))]
           \/ /\ ask' = [ask EXCEPT ![r] = Throw(Threw(a), ConnectionError)]
              /\ UNCHANGED threads
    /\ UNCHANGED <<config, token, client, server, clients, runs>>

\* Variant of RunsCreate: the run is not waited for; the handler lists the
\* messages at once.
RunsCreate_noWait(r, toolChoice) ==
    LET a == Call(ask[r], "runs.create", toolChoice)
    IN  \/ /\ runs' = Append(runs, [thread_id |-> a.thread, tool_choice |-> toolChoice])
           /\ ask' = [ask EXCEPT ![r] =
                        [Returned(a) EXCEPT !.run = Len(runs) + 1,
                                            !.pc = IF a.pass = 1 THEN "pass1_messages_list"
                                                   ELSE "pass2_messages_list"]]
        \/ /\ ask' = [ask EXCEPT ![r] = Throw(Threw(a), ConnectionError)]
           /\ UNCHANGED runs

\* runs.create of the given tool choice on the request's thread.
RunsCreate(r, toolChoice) ==
    LET a == Call(ask[r], "runs.create", toolChoice)
    IN  \/ /\ runs' = Append(runs, [thread_id |-> a.thread, tool_choice |-> toolChoice])
           /\ ask' = [ask EXCEPT ![r] =
                        [Returned(a) EXCEPT !.run = Len(runs) + 1, !.pc = "retrieve_first"]]
        \/ /\ ask' = [ask EXCEPT ![r] = Throw(Threw(a), ConnectionError)]
           /\ UNCHANGED runs

\* PASS 1: the run forced to file_search on the configured vector store.
Pass1RunsCreate(r) ==
    /\ ask[r].pc = "pass1_runs_create"
    /\ RunsCreate(r, "file_search")
    /\ UNCHANGED <<config, token, client, server, clients, threads>>

\* Status fetches the running waitForRunCompletion has issued.
Fetches(a) == Len(SelectSeq(a.polls, LAMBDA c : c.op = "runs.retrieve"))

\* runs.retrieve settles: it throws, or the service reports a status and, once
\* the run no longer waits, has added what the run generated to the thread.
RetrieveOutcomes(a) ==
    LET b == PollCall(a, "runs.retrieve", "")
    IN  {[threw |-> TRUE, a |-> Threw(b), threads |-> threads]}
        \cup
        {[threw |-> FALSE,
          a |-> [Settled(b, FALSE, rs.status, rs.last_error)
                   EXCEPT !.runStatus = Some(rs)],
          threads |-> IF gen = Undefined THEN threads
                      ELSE [threads EXCEPT ![a.thread] = Append(@, gen[1])]] :
            <<rs, gen>> \in {x \in RetrieveResults(Fetches(a))
                                    \X Generated("completed") :
                               x[2] \in Generated(x[1].status)}}

\* waitForRunCompletion, the fetch before the loop.
RetrieveFirst(r) ==
    /\ ask[r].pc = "retrieve_first"
    /\ \E out \in RetrieveOutcomes(ask[r]) :
         /\ threads' = out.threads
         /\ ask' = [ask EXCEPT ![r] = IF out.threw THEN Throw(out.a, ConnectionError)
                                      ELSE LoopCheck(out.a)]
    /\ UNCHANGED <<config, token, client, server, clients, runs>>

\* await new Promise((resolve) => setTimeout(resolve, 1000))
Sleep(r) ==
    /\ ask[r].pc = "sleep"
    /\ ask' = [ask EXCEPT ![r].pc = "retrieve_loop"]
    /\ UNCHANGED <<config, token, client, server, clients, threads, runs>>

\* The loop body after its fetch: submit tool outputs when asked to, else test
\* the loop condition again.
AfterLoopFetch(a) ==
    LET rs == a.runStatus[1]
    IN  IF rs.status = "requires_action" /\ rs.required_action = Some("submit_tool_outputs")
        THEN [a EXCEPT !.pc = "submit_tool_outputs"]
        ELSE LoopCheck(a)

\* waitForRunCompletion, the fetch inside the loop.
RetrieveLoop(r) ==
    /\ ask[r].pc = "retrieve_loop"
    /\ \E out \in RetrieveOutcomes(ask[r]) :
         /\ threads' = out.threads
         /\ ask' = [ask EXCEPT ![r] = IF out.threw THEN Throw(out.a, ConnectionError)
                                      ELSE AfterLoopFetch(out.a)]
    /\ UNCHANGED <<config, token, client, server, clients, runs>>

\* runs.submitToolOutputs(threadId, runId, { tool_outputs: [] })
SubmitToolOutputs(r) ==
    /\ ask[r].pc = "submit_tool_outputs"
    /\ LET a == PollCall(ask[r], "runs.submitToolOutputs", "[]")
       IN  \/ ask' = [ask EXCEPT ![r] = LoopCheck(Returned(a))]
           \/ ask' = [ask EXCEPT ![r] =
                        Throw(Threw(a), "Run " \o ToString(a.run)
                                 \o " failed during tool output submission.")]
    /\ UNCHANGED <<config, token, client, server, clients, threads, runs>>

\* messages.list after Pass 1; reply = (first text) || ""; then the fallback test.
Pass1MessagesList(r) ==
    /\ ask[r].pc = "pass1_messages_list"
    /\ LET a == Call(ask[r], "messages.list", "")
       IN  \/ ask' = [ask EXCEPT ![r] =
                        LET messages == ListLatest(a.thread)
                            reply == OrElse(FirstText(messages), "")
                        IN  FallbackCheck([Log(Returned(a), "Vector reply:", reply)
                                             EXCEPT !.messages = Some(messages),
                                                    !.reply = reply])]
           \/ ask' = [ask EXCEPT ![r] = Throw(Threw(a), ConnectionError)]
    /\ UNCHANGED <<config, token, client, server, clients, threads, runs>>

\* The clarification prompt is appended as a user message.
ClarificationCreate(r) ==
    /\ ask[r].pc = "clarification_create"
    /\ LET a == Call(ask[r], "messages.create", fallbackClarificationPrompt)
       IN  \/ /\ threads' = [threads EXCEPT ![a.thread] =
                               Append(@, UserMessage(fallbackClarificationPrompt))]
              /\ ask' = [ask EXCEPT ![r] = [Returned(a) EXCEPT !.pc = "pass2_runs_create"]]
           \/ /\ ask' = [ask EXCEPT ![r] = Throw(Threw(a), ConnectionError)]
              /\ UNCHANGED threads
    /\ UNCHANGED <<config, token, client, server, clients, runs>>

\* PASS 2: the run with the assistant's own tool configuration.
Pass2RunsCreate(r) ==
    /\ ask[r].pc = "pass2_runs_create"
    /\ RunsCreate(r, "default")
    /\ UNCHANGED <<config, token, client, server, clients, threads>>

\* Variant of Pass2MessagesList: an empty extraction is kept, as in Pass 1.
Pass2MessagesList_noPlaceholder(r) ==
    /\ ask[r].pc = "pass2_messages_list"
    /\ LET a == Call(ask[r], "messages.list", "")
       IN  \/ ask' = [ask EXCEPT ![r] =
                        LET messages == ListLatest(a.thread)
                            reply == OrElse(FirstText(messages), "")
                        IN  SpeechCheck([Log(Returned(a), "Fallback reply:", reply)
                                           EXCEPT !.messages = Some(messages),
                                                  !.reply = reply])]
           \/ ask' = [ask EXCEPT ![r] = Throw(Threw(a), ConnectionError)]
    /\ UNCHANGED <<config, token, client, server, clients, threads, runs>>

\* messages.list after Pass 2; reply = rawMessage || placeholder; then speech.
Pass2MessagesList(r) ==
    /\ ask[r].pc = "pass2_messages_list"
    /\ LET a == Call(ask[r], "messages.list", "")
       IN  \/ ask' = [ask EXCEPT ![r] =
                        LET messages == ListLatest(a.thread)
                            reply == OrElse(FirstText(messages), Placeholder)
                        IN  SpeechCheck([Log(Returned(a), "Fallback reply:", reply)
                                           EXCEPT !.messages = Some(messages),
                                                  !.reply = reply])]
           \/ ask' = [ask EXCEPT ![r] = Throw(Threw(a), ConnectionError)]
    /\ UNCHANGED <<config, token, client, server, clients, threads, runs>>

\* openai.audio.speech.create({ ..., input: reply }); a failure is logged only.
SpeechCreate(r) ==
    /\ ask[r].pc = "speech_create"
    /\ LET a == Call(ask[r], "audio.speech.create", ask[r].reply)
       IN  \/ ask' = [ask EXCEPT ![r] = [Returned(a) EXCEPT !.pc = "array_buffer"]]
           \/ ask' = [ask EXCEPT ![r] = SpeechCatch(Threw(a))]
    /\ UNCHANGED <<config, token, client, server, clients, threads, runs>>

\* speechResponse.arrayBuffer() and the base64 encoding; a failure is logged only.
ArrayBuffer(r) ==
    /\ ask[r].pc = "array_buffer"
    /\ \/ \E bytes \in AudioBuffers :
            ask' = [ask EXCEPT ![r] =
                      SendReply([Returned(@) EXCEPT !.base64Audio = Some(Base64(bytes))])]
       \/ ask' = [ask EXCEPT ![r] = SpeechCatch(Threw(@))]
    /\ UNCHANGED <<config, token, client, server, clients, threads, runs>>

\* GET /token arrives.
TokenReceive(r) ==
    /\ server = "listening"
    /\ token[r].pc = "idle"
    /\ token' = [token EXCEPT ![r].pc = "fetch"]
    /\ UNCHANGED <<config, client, server, clients, ask, threads, runs>>

\* const response = await fetch(".../v1/realtime/sessions", ...)
TokenFetch(r) ==
    /\ token[r].pc = "fetch"
    /\ \/ \E status \in UpstreamStatuses :
            token' = [token EXCEPT ![r] =
                        [@ EXCEPT !.response = Some([status |-> status]), !.pc = "json"]]
       \/ token' = [token EXCEPT ![r] = TokenCatch(@)]
    /\ UNCHANGED <<config, client, server, clients, ask, threads, runs>>

\* const data = await response.json(); res.json(data)
TokenJson(r) ==
    /\ token[r].pc = "json"
    /\ \/ \E data \in SessionBodies(token[r].response[1]) :
            token' = [token EXCEPT ![r] =
                        [@ EXCEPT !.data = Some(data),
                                  !.res = Append(@, [status |-> 200, body |-> data]),
                                  !.pc = "done"]]
       \/ token' = [token EXCEPT ![r] = TokenCatch(@)]
    /\ UNCHANGED <<config, client, server, clients, ask, threads, runs>>

\* ------------------------------------------------------------ specification

Next ==
    \/ Startup
    \/ \E r \in Reqs :
         \/ AskReceive(r)
         \/ ThreadsCreate(r)
         \/ MessagesCreate(r)
         \/ Pass1RunsCreate(r)
         \/ RetrieveFirst(r)
         \/ Sleep(r)
         \/ RetrieveLoop(r)
         \/ SubmitToolOutputs(r)
         \/ Pass1MessagesList(r)
         \/ ClarificationCreate(r)
         \/ Pass2RunsCreate(r)
         \/ Pass2MessagesList(r)
         \/ SpeechCreate(r)
         \/ ArrayBuffer(r)

Spec == Init /\ [][Next]_vars

\* The steps of request r's handler after the request has arrived.
HandlerStep(r) ==
    \/ ThreadsCreate(r)
    \/ MessagesCreate(r)
    \/ Pass1RunsCreate(r)
    \/ RetrieveFirst(r)
    \/ Sleep(r)
    \/ RetrieveLoop(r)
    \/ SubmitToolOutputs(r)
    \/ Pass1MessagesList(r)
    \/ ClarificationCreate(r)
    \/ Pass2RunsCreate(r)
    \/ Pass2MessagesList(r)
    \/ SpeechCreate(r)
    \/ ArrayBuffer(r)

\* Every awaited call settles and every timer fires: a handler that can step
\* eventually does.  That every run eventually leaves the waiting statuses is
\* the service's part (RetrieveResults).  The configuration is one in which
\* both passes, the clarification and the speech call occur, with minimum
\* lengths that let a reply pass or fail either test.
LiveInit ==
    /\ Init
    /\ vectorStoreId = "vs_1"
    /\ fallbackStrategy = "RETRY_WITH_CLARIFICATION_PROMPT"
    /\ fallbackReplyMinLength = Num(1)
    /\ speechReplyMinLength = Num(MaxLen)

LiveSpec == LiveInit /\ [][Next]_vars /\ \A r \in Reqs : WF_vars(HandlerStep(r))

\* The two requests of a concurrent pair.
Pair == {1, 2}

\* Two clients send a request each and the two handlers interleave at their
\* awaits.  The configuration has no vector store, no clarification and no
\* speech, so each handler is thread, message, Pass 2 run, polling, list.
ConcurrentInit ==
    /\ apiKey = "sk-test"
    /\ assistantId = "asst_1"
    /\ vectorStoreId = ""
    /\ fallbackReplyMinLength = Num(DefaultFallbackReplyMinLength)
    /\ speechReplyMinLength = NaN
    /\ fallbackStrategy = "RETRY_NO_ADDITIONAL_PROMPT"
    /\ fallbackClarificationPrompt = DefaultClarificationPrompt
    /\ server = "starting"
    /\ clients = Pair
    /\ ask = [r \in Reqs |-> InitialAsk]
    /\ threads = <<>>
    /\ runs = <<>>
    /\ token = [r \in Reqs |-> InitialToken]
    /\ client = InitialClient

ConcurrentNext ==
    \/ Startup
    \/ \E r \in Reqs :
         \/ AskReceive(r)
         \/ ThreadsCreate(r)
         \/ MessagesCreate(r)
         \/ Pass2RunsCreate(r)
         \/ RetrieveFirst(r)
         \/ Sleep(r)
         \/ RetrieveLoop(r)
         \/ SubmitToolOutputs(r)
         \/ Pass2MessagesList(r)

ConcurrentSpec == ConcurrentInit /\ [][ConcurrentNext]_vars

\* The /token route on its own: it shares no state with /ask but the read-only
\* configuration, which is left at the defaults.
TokenInit ==
    /\ Init
    /\ fallbackReplyMinLength = Num(DefaultFallbackReplyMinLength)
    /\ speechReplyMinLength = Num(DefaultSpeechReplyMinLength)
    /\ fallbackStrategy = "RETRY_NO_ADDITIONAL_PROMPT"
    /\ vectorStoreId = ""

TokenNext ==
    \/ Startup
    \/ \E r \in Reqs :
         \/ TokenReceive(r)
         \/ TokenFetch(r)
         \/ TokenJson(r)

TokenSpec == TokenInit /\ [][TokenNext]_vars

\* The first effect of App
Mounted ==
    /\ ~client.isClient
    /\ client' = [client EXCEPT !.isClient = TRUE]
    /\ UNCHANGED serverVars

\* A click on the overlay
OverlayClick ==
    /\ client.isClient
    /\ client.showOverlay
    /\ \E s \in Sessions : client.sessions[s] = "idle"
    /\ client' = startSession(client)
    /\ UNCHANGED serverVars

\* The start-session button, by a click or from the keyboard
handleStartSession ==
    /\ client.isClient
    /\ ~client.isSessionActive
    /\ ~client.isActivating
    /\ \E s \in Sessions : client.sessions[s] = "idle"
    /\ client' = startSession([client EXCEPT !.isActivating = TRUE])
    /\ UNCHANGED serverVars

\* fetch("/token") resolves, whatever the status, and the body is read.
FetchTokenResolves(s) ==
    /\ client.sessions[s] = "fetchToken"
    /\ client' = [client EXCEPT !.sessions[s] = "tokenJson"]
    /\ UNCHANGED serverVars

\* data.client_secret.value throws when the body has no client_secret;
\* otherwise the peer connection is made and the microphone asked for.
TokenJsonResolves(s) ==
    /\ client.sessions[s] = "tokenJson"
    /\ \E hasSecret \in BOOLEAN :
         client' = IF hasSecret
                   THEN [client EXCEPT !.sessions[s] = "getUserMedia",
                                       !.pcs[s] = "open"]
                   ELSE [client EXCEPT !.sessions[s] = "threw"]
    /\ UNCHANGED serverVars

\* The data channel is created and set; the effect on dataChannel adds its
\* listeners.
GetUserMediaResolves(s) ==
    /\ client.sessions[s] = "getUserMedia"
    /\ client' = [client EXCEPT !.sessions[s] = "createOffer",
                                !.channels[s].readyState = "connecting",
                                !.dataChannel = s]
    /\ UNCHANGED serverVars

\* The offer is created and set, the answer fetched, read and set: five
\* awaits with no state of the page between them.
SetRemoteDescriptionResolves(s) ==
    /\ client.sessions[s] = "createOffer"
    /\ client' = [client EXCEPT !.sessions[s] = "returned",
                                !.peerConnection = s]
    /\ UNCHANGED serverVars

\* An awaited call rejects: startSession has no catch.
AwaitRejects(s) ==
    /\ client.sessions[s] \notin {"idle", "returned", "threw"}
    /\ client' = [client EXCEPT !.sessions[s] = "threw"]
    /\ UNCHANGED serverVars

\* The "open" listener of channel s, whose render saw dataChannel = s
ChannelOpens(s) ==
    /\ client.sessions[s] = "returned"
    /\ client.channels[s].readyState = "connecting"
    /\ LET opened == [client EXCEPT !.channels[s].readyState = "open"]
           cleared == [SetIsSessionActive(opened, TRUE)
                          EXCEPT !.events = <<>>, !.transcriptBubbles = <<>>]
       IN  client' = sendTextMessage(cleared, s, Greeting, "open")
    /\ UNCHANGED serverVars

\* The peer closes an open channel; the page listens for no "close".
ChannelCloses(s) ==
    /\ client.channels[s].readyState = "open"
    /\ client' = [client EXCEPT !.channels[s].readyState = "closed"]
    /\ UNCHANGED serverVars

\* The "message" listener of channel s
ChannelMessage(s) ==
    /\ client.channels[s].readyState = "open"
    /\ Len(SelectSeq(client.events, LAMBDA e : e \notin
                       {"conversation.item.create", "response.create"})) < MaxEvents
    /\ \E event \in {[type |-> "response.content_part.added", text |-> Some(AssistantText)],
                     [type |-> "response.content_part.added", text |-> Undefined],
                     [type |-> "response.done", text |-> Undefined]} :
         client' = [client EXCEPT
                      !.events = <<event.type>> \o @,
                      !.transcriptBubbles =
                          IF event.type = "response.content_part.added"
                             /\ event.text # Undefined
                          THEN Append(@, [text |-> event.text[1], sender |-> "assistant"])
                          ELSE @]
    /\ UNCHANGED serverVars

\* onChange of the input of SessionActive
ChangeMessage(text) ==
    /\ client.isSessionActive
    /\ client.message # text
    /\ client' = [client EXCEPT !.message = text]
    /\ UNCHANGED serverVars

ControlSends(c) == Len(SelectSeq(c.calls, LAMBDA k : k.from # "open"))

\* onKeyDown of the input, with the Enter key
EnterKey ==
    /\ client.isSessionActive
    /\ Trim(client.message) # <<>>
    /\ ControlSends(client) < MaxSends
    /\ client' = handleSendClientEvent(client, "onKeyDown")
    /\ UNCHANGED serverVars

\* onClick of the send-text button
SendTextClick ==
    /\ client.isSessionActive
    /\ Trim(client.message) # <<>>
    /\ ControlSends(client) < MaxSends
    /\ client' = handleSendClientEvent(client, "onClick")
    /\ UNCHANGED serverVars

\* stopSession, the onClick of the disconnect button:
\* peerConnection.current.getSenders() throws when the ref is null, after
\* the channel is closed and before any state is set.
stopSession ==
    /\ client.isSessionActive
    /\ LET d == client.dataChannel
           p == client.peerConnection
           closed == IF d # Null /\ client.channels[d].readyState # "none"
                     THEN [client EXCEPT !.channels[d].readyState = "closed"]
                     ELSE client
       IN  client' =
             IF p = Null THEN closed
             ELSE [SetIsSessionActive(closed, FALSE)
                     EXCEPT !.pcs[p] = "closed",
                            !.channels[p].readyState =
                                IF @ = "none" THEN @ ELSE "closed",
                            !.dataChannel = Null,
                            !.peerConnection = Null]
    /\ UNCHANGED serverVars

\* The page on its own, against a server it only fetches from.
ClientInit ==
    /\ Init
    /\ apiKey = "sk-test"
    /\ assistantId = "asst_1"
    /\ vectorStoreId = ""
    /\ fallbackReplyMinLength = Num(DefaultFallbackReplyMinLength)
    /\ speechReplyMinLength = Num(DefaultSpeechReplyMinLength)
    /\ fallbackStrategy = "RETRY_NO_ADDITIONAL_PROMPT"

ClientNext ==
    \/ Mounted
    \/ OverlayClick
    \/ handleStartSession
    \/ EnterKey
    \/ SendTextClick
    \/ stopSession
    \/ \E text \in Typed : ChangeMessage(text)
    \/ \E s \in Sessions :
         \/ FetchTokenResolves(s)
         \/ TokenJsonResolves(s)
         \/ GetUserMediaResolves(s)
         \/ SetRemoteDescriptionResolves(s)
         \/ AwaitRejects(s)
         \/ ChannelOpens(s)
         \/ ChannelCloses(s)
         \/ ChannelMessage(s)

ClientSpec == ClientInit /\ [][ClientNext]_vars

\* ------------------------------------------------- what the claims speak of

CallsOf(a, op) == SelectSeq(a.calls, LAMBDA c : c.op = op)

\* Generation attempts: the runs.create calls of a request, by pass.
RunsCreated(a) == CallsOf(a, "runs.create")

Pass1Runs(a) == SelectSeq(a.calls, LAMBDA c : c.op = "runs.create" /\ c.arg = "file_search")

Pass2Runs(a) == SelectSeq(a.calls, LAMBDA c : c.op = "runs.create" /\ c.arg = "default")

\* messages.create calls that carry the clarification prompt.
Clarifications(a) ==
    SelectSeq(a.calls, LAMBDA c : c.op = "messages.create"
                                  /\ c.arg = fallbackClarificationPrompt)

SpeechCalls(a) == CallsOf(a, "audio.speech.create")

Logged(a, msg) == SelectSeq(a.console, LAMBDA l : l.msg = msg)

\* The reply Pass 1 extracted, as the handler logged it; absent while Pass 1 has
\* extracted nothing (not run yet, skipped, or ended by an error).
VectorReply(a) ==
    IF Logged(a, "Vector reply:") = <<>> THEN Undefined
    ELSE Some(Logged(a, "Vector reply:")[1].value)

\* Pass 1 is over and gave no reply: it was skipped, it ended in an error, or
\* the text it extracted is empty.
Pass1NoReply(a) ==
    \/ Logged(a, "Skipping PASS 1: No vector store configured.") # <<>>
    \/ Logged(a, "Error during PASS 1:") # <<>>
    \/ VectorReply(a) = Some("")

\* Pass 1 extracted a reply shorter than fallbackReplyMinLength.
Pass1ShortReply(a) ==
    VectorReply(a) # Undefined /\ JsLess(Len(VectorReply(a)[1]), fallbackReplyMinLength)

\* The request carried a non-empty text.
HasText(a) == a.userText # Undefined /\ a.userText[1] # ""

ClarificationStrategy == fallbackStrategy = "RETRY_WITH_CLARIFICATION_PROMPT"

\* Pass 2 was entered: the handler logged that it falls back.
FellBack(a) == Logged(a, "Reply too short. Falling back...") # <<>>

LastCall(a) == a.calls[Len(a.calls)]

\* The latest awaited call threw, or fetched a failure status of the run.
Failure(answer) ==
    answer # Undefined /\ (answer[1].threw \/ answer[1].status \in FailureStatuses)

\* The step is one of request r's handler.
Stepped(r) == ask'[r] # ask[r]

Finished(a) == a.pc = "done"

Status(a) == a.res[1].status

\* ------------------------------------------------------------------ claims

\* C1: when Pass 1 yields a reply (a non-empty text) whose length is at or above
\* fallbackReplyMinLength, the request never creates a Pass 2 run, is never
\* about to, and never appends the clarification message.
C1_AcceptedPass1NeverFallsBack ==
    \A r \in Reqs :
        LET a == ask[r]
            v == VectorReply(a)
        IN  (v # Undefined /\ ~Falsy(v[1]) /\ JsAtLeast(Len(v[1]), fallbackReplyMinLength))
            => /\ Pass2Runs(a) = <<>>
               /\ Clarifications(a) = <<>>
               /\ a.pass # 2
               /\ a.pc \notin {"clarification_create", "pass2_runs_create"}
               /\ a.reply = v[1]

\* C1 witness: a finished request whose Pass 1 reply met the minimum.
C1_Witness ==
    \E r \in Reqs :
        LET a == ask[r]
            v == VectorReply(a)
        IN  /\ Finished(a) /\ Status(a) = 200
            /\ v # Undefined /\ ~Falsy(v[1])
            /\ JsAtLeast(Len(v[1]), fallbackReplyMinLength)
            /\ Len(v[1]) = fallbackReplyMinLength.n
            /\ Len(Pass1Runs(a)) = 1

\* C2 as stated: a finished request with non-empty text whose Pass 1 gave no
\* reply, or a reply shorter than the minimum, has issued exactly one Pass 2
\* runs.create.
C2_ExactlyOnePass2 ==
    \A r \in Reqs :
        LET a == ask[r]
        IN  (Finished(a) /\ HasText(a) /\ (Pass1NoReply(a) \/ Pass1ShortReply(a)))
            => Len(Pass2Runs(a)) = 1

\* The request ended because appending the clarification message threw.
ClarificationFailed(a) ==
    /\ ClarificationStrategy
    /\ Finished(a) /\ Status(a) = 500
    /\ Len(Clarifications(a)) = 1
    /\ LastCall(a) = Clarifications(a)[1]
    /\ a.answer # Undefined /\ a.answer[1].threw

\* C2 amended: no request ever issues more than one Pass 2 runs.create; once
\* Pass 1 gave no reply or a short one, the handler is about to append the
\* clarification or to create the Pass 2 run, or has issued exactly one Pass 2
\* runs.create, unless appending the clarification message threw, which ends
\* the request with a 500 response and no Pass 2 run.
C2_ExactlyOnePass2UnlessClarificationThrows ==
    \A r \in Reqs :
        LET a == ask[r]
        IN  /\ Len(Pass2Runs(a)) <= 1
            /\ (HasText(a) /\ (Pass1NoReply(a) \/ Pass1ShortReply(a)))
               => \/ Len(Pass2Runs(a)) = 1
                  \/ ~Finished(a) /\ a.pc \in {"clarification_create", "pass2_runs_create"}
                  \/ ClarificationFailed(a) /\ Pass2Runs(a) = <<>>

\* C2 witness: Pass 1 extracted a non-empty reply below the minimum and the
\* request finished after exactly one Pass 2 run.
C2_Witness ==
    \E r \in Reqs :
        LET a == ask[r]
        IN  /\ Finished(a) /\ Status(a) = 200
            /\ Pass1ShortReply(a) /\ VectorReply(a) # Some("")
            /\ Len(Pass2Runs(a)) = 1

\* C3: no request issues more than two runs.create calls: at most one per pass.
C3_AtMostTwoAttempts ==
    \A r \in Reqs :
        LET a == ask[r]
        IN  /\ Len(RunsCreated(a)) <= 2
            /\ Len(Pass1Runs(a)) <= 1
            /\ Len(Pass2Runs(a)) <= 1

\* C3 witness: a request answered after two attempts whose Pass 2 reply is
\* itself shorter than the minimum.
C3_Witness ==
    \E r \in Reqs :
        LET a == ask[r]
        IN  /\ Finished(a) /\ Status(a) = 200
            /\ Len(RunsCreated(a)) = 2
            /\ JsLess(Len(a.reply), fallbackReplyMinLength)

\* C4: a step of Pass 1 in which the awaited call throws, or fetches a failure
\* status, sends no response: the reply is empty and the handler has entered
\* Pass 2.
C4_Pass1ErrorsNeverSurface ==
    [][\A r \in Reqs :
          (ask[r].pass = 1 /\ Stepped(r) /\ Failure(ask'[r].answer))
          => /\ ask'[r].reply = ""
             /\ ask'[r].res = <<>>
             /\ ask'[r].pass = 2
             /\ ask'[r].pc \in {"clarification_create", "pass2_runs_create"}]_vars

\* C4 witness: Pass 1 ended in an error and the request was answered with 200.
C4_Witness ==
    \E r \in Reqs :
        LET a == ask[r]
        IN  /\ Finished(a) /\ Status(a) = 200
            /\ Logged(a, "Error during PASS 1:") # <<>>
            /\ Len(Pass1Runs(a)) = 1

\* C5: a step of Pass 2 in which the awaited call throws, or fetches a failure
\* status, ends the request with a single 500 response carrying error and
\* details, with no speech call and at most one Pass 2 run; a finished request
\* takes no further step.
C5_Pass2FailureIs500 ==
    [][\A r \in Reqs :
          /\ (ask[r].pass = 2 /\ Stepped(r) /\ Failure(ask'[r].answer))
             => /\ Finished(ask'[r])
                /\ Len(ask'[r].res) = 1
                /\ Status(ask'[r]) = 500
                /\ ask'[r].res[1].body.error = "Failed to process assistant response"
                /\ ask'[r].res[1].body.details # ""
                /\ SpeechCalls(ask'[r]) = <<>>
                /\ Len(Pass2Runs(ask'[r])) <= 1
          /\ Finished(ask[r]) => ~Stepped(r)]_vars

\* C5 witness: the Pass 2 run was fetched with a failure status and the request
\* ended with 500.
C5_Witness ==
    \E r \in Reqs :
        LET a == ask[r]
        IN  /\ Finished(a) /\ Status(a) = 500
            /\ Len(Pass2Runs(a)) = 1
            /\ a.answer # Undefined /\ a.answer[1].status \in FailureStatuses

\* C6: a request whose text is absent or empty is answered 400 "Missing text
\* in request body" at once, and has issued no call to the service of any
\* kind: no thread, no message, no run, no status fetch, no speech.
C6_MissingTextIs400 ==
    \A r \in Reqs :
        LET a == ask[r]
        IN  (a.pc # "idle" /\ a.userText \in {Undefined, Some("")})
            => /\ Finished(a)
               /\ a.res = <<[status |-> 400,
                             body |-> [error |-> "Missing text in request body"]]>>
               /\ a.calls = <<>> /\ a.polls = <<>>
               /\ a.thread = 0 /\ a.run = 0
               /\ \A t \in 1..Len(threads) : \A i \in 1..Len(threads[t]) :
                     threads[t][i] # UserMessage("")

\* C6 witness: a request with an empty text has been answered.
C6_Witness ==
    \E r \in Reqs : ask[r].userText = Some("") /\ Finished(ask[r]) /\ Status(ask[r]) = 400

\* Position in calls of the one call with the given operation and argument.
CallIndex(a, op, arg) ==
    CHOOSE i \in 1..Len(a.calls) : a.calls[i].op = op /\ a.calls[i].arg = arg

\* Clarification messages in the thread of the request.
ClarificationMessages(a) ==
    IF a.thread = 0 THEN <<>>
    ELSE SelectSeq(threads[a.thread],
                   LAMBDA m : m = UserMessage(fallbackClarificationPrompt))

\* C7: the clarification message is sent at most once, only after Pass 2 was
\* entered under RETRY_WITH_CLARIFICATION_PROMPT, and then always: once Pass 2
\* is entered under that strategy the handler sends it before anything else;
\* when the Pass 2 run is created the message is the latest of the thread and
\* its call precedes the runs.create call; it is never sent during Pass 1.
C7_ClarificationOnlyBeforePass2 ==
    \A r \in Reqs :
        LET a == ask[r]
        IN  /\ Len(Clarifications(a)) <= 1
            /\ Len(ClarificationMessages(a)) <= Len(Clarifications(a))
            /\ Clarifications(a) # <<>> => ClarificationStrategy /\ FellBack(a)
            /\ a.pass = 1 => Clarifications(a) = <<>>
            /\ (ClarificationStrategy /\ FellBack(a))
               => \/ a.pc = "clarification_create" /\ Clarifications(a) = <<>>
                                                   /\ Pass2Runs(a) = <<>>
                  \/ a.pc # "clarification_create" /\ Len(Clarifications(a)) = 1
            /\ (ClarificationStrategy /\ a.pc = "pass2_runs_create")
               => /\ Len(ClarificationMessages(a)) = 1
                  /\ ListLatest(a.thread).data
                       = <<UserMessage(fallbackClarificationPrompt)>>
            /\ Pass2Runs(a) # <<>>
               => IF ClarificationStrategy
                  THEN /\ Len(Clarifications(a)) = 1
                       /\ CallIndex(a, "messages.create", fallbackClarificationPrompt)
                            < CallIndex(a, "runs.create", "default")
                  ELSE Clarifications(a) = <<>>

\* C7 witness: a request that ran Pass 1, fell back with the clarification
\* message and was answered.
C7_Witness ==
    \E r \in Reqs :
        LET a == ask[r]
        IN  /\ Finished(a) /\ Status(a) = 200
            /\ Len(Pass1Runs(a)) = 1 /\ Len(Pass2Runs(a)) = 1
            /\ Len(ClarificationMessages(a)) = 1

\* C8 as stated: without a vector store id, a finished request with non-empty
\* text has created no Pass 1 run and has issued exactly one runs.create.
C8_NoVectorStoreExactlyOneAttempt ==
    \A r \in Reqs :
        LET a == ask[r]
        IN  (vectorStoreId = "" /\ Finished(a) /\ HasText(a))
            => Pass1Runs(a) = <<>> /\ Len(RunsCreated(a)) = 1

\* The request ended with 500 because a call that precedes every runs.create
\* threw: thread creation, the user message, or the clarification message.
FailedBeforeAnyRun(a) ==
    /\ Finished(a) /\ Status(a) = 500
    /\ RunsCreated(a) = <<>>
    /\ LastCall(a).op \in {"threads.create", "messages.create"}
    /\ a.answer # Undefined /\ a.answer[1].threw

\* C8 amended: without a vector store id no request ever creates a Pass 1 run or
\* stands in Pass 1, none issues more than one runs.create, and a finished
\* request with non-empty text has issued exactly one, the Pass 2 run, unless a
\* call before it threw and the request ended with 500.
C8_NoVectorStoreSkipsPass1 ==
    \A r \in Reqs :
        LET a == ask[r]
        IN  vectorStoreId = ""
            => /\ Pass1Runs(a) = <<>>
               /\ a.pass # 1 /\ a.pc # "pass1_runs_create"
               /\ Len(RunsCreated(a)) <= 1
               /\ (Finished(a) /\ HasText(a))
                  => \/ Len(Pass2Runs(a)) = 1
                     \/ FailedBeforeAnyRun(a)

\* C8 witness: a request answered without a vector store, after one Pass 2 run.
C8_Witness ==
    \E r \in Reqs :
        LET a == ask[r]
        IN  /\ vectorStoreId = ""
            /\ Finished(a) /\ Status(a) = 200
            /\ Logged(a, "Skipping PASS 1: No vector store configured.") # <<>>
            /\ Len(RunsCreated(a)) = 1

\* C9: speech is only ever requested for a reply that is not shorter than
\* speechReplyMinLength; a 200 response whose text is shorter than it has a
\* null audio field and no audio.speech.create call behind it.
C9_ShortReplyNoSpeech ==
    \A r \in Reqs :
        LET a == ask[r]
        IN  /\ (a.pc \in {"speech_create", "array_buffer"} \/ SpeechCalls(a) # <<>>)
               => ~JsLess(Len(a.reply), speechReplyMinLength)
            /\ (Finished(a) /\ Status(a) = 200
                /\ JsLess(Len(a.res[1].body.text), speechReplyMinLength))
               => SpeechCalls(a) = <<>> /\ a.res[1].body.audio = Undefined

\* C9 witness: a 200 response whose text is shorter than speechReplyMinLength.
C9_Witness ==
    \E r \in Reqs :
        LET a == ask[r]
        IN  /\ Finished(a) /\ Status(a) = 200
            /\ JsLess(Len(a.res[1].body.text), speechReplyMinLength)
            /\ RunsCreated(a) # <<>>

\* C10: a 200 response whose text is at or above speechReplyMinLength has
\* exactly one audio.speech.create call behind it, with that text as input; a
\* request that called audio.speech.create always ends with one 200 response
\* carrying the reply, and with a null audio field when the speech call or the
\* reading of its bytes threw.
C10_SpeechAttemptedFailureTolerated ==
    \A r \in Reqs :
        LET a == ask[r]
        IN  /\ (Finished(a) /\ Status(a) = 200
                /\ JsAtLeast(Len(a.res[1].body.text), speechReplyMinLength))
               => /\ Len(SpeechCalls(a)) = 1
                  /\ SpeechCalls(a)[1].arg = a.res[1].body.text
            /\ (Finished(a) /\ SpeechCalls(a) # <<>>)
               => /\ Len(a.res) = 1
                  /\ Status(a) = 200
                  /\ a.res[1].body.text = a.reply
                  /\ a.answer[1].threw => a.res[1].body.audio = Undefined

\* C10 witness: the speech call was made and threw, and the request was
\* answered with the text.
C10_Witness ==
    \E r \in Reqs :
        LET a == ask[r]
        IN  /\ Finished(a) /\ Status(a) = 200
            /\ Len(SpeechCalls(a)) = 1
            /\ LastCall(a).op = "audio.speech.create"
            /\ a.answer[1].threw
            /\ a.res[1].body.audio = Undefined

\* The upstream answered and its answer carries a usable credential: a success
\* status and a client_secret.value.
UsableCredential(t) ==
    /\ t.response # Undefined /\ Ok(t.response[1])
    /\ t.data # Undefined
    /\ t.data[1].client_secret # Undefined
    /\ t.data[1].client_secret[1].value # Undefined

\* C11 as stated: a /token request whose upstream response lacks a usable
\* credential (a non-success status, or no client_secret.value) is answered
\* with 500 and never with 200.
C11_NoCredentialIs500 ==
    \A r \in Reqs :
        LET t == token[r]
        IN  (t.pc = "done" /\ t.response # Undefined /\ ~UsableCredential(t))
            => t.res[1].status = 500

\* C11 witness: the upstream answered 401 with an error object and the broker
\* answered 200 with that object.
C11_Witness ==
    \E r \in Reqs :
        LET t == token[r]
        IN  /\ t.pc = "done" /\ t.response = Some([status |-> 401])
            /\ t.res = <<[status |-> 200, body |-> t.data[1]]>>
            /\ t.data[1].client_secret = Undefined

\* The calls a request has on record that are given a thread id.
ThreadCalls(a) ==
    SelectSeq(a.calls \o a.polls,
              LAMBDA c : c.op \in {"messages.create", "runs.create", "runs.retrieve",
                                   "runs.submitToolOutputs", "messages.list"})

\* The handler is past its threads.create call.
PastThreadsCreate(a) == HasText(a) /\ a.pc \notin {"idle", "threads_create"}

\* C12: a request with non-empty text issues threads.create exactly once (and no
\* request more than once); every call it issues after that is given the id of
\* the thread that call returned, and so is the run the service holds for it;
\* the service holds one thread per request that created one, and no request
\* holds, or gives to a call, the thread id of another request.
C12_OneThreadPerRequest ==
    \A r \in Reqs :
        LET a == ask[r]
        IN  /\ Len(CallsOf(a, "threads.create")) <= 1
            /\ PastThreadsCreate(a) => Len(CallsOf(a, "threads.create")) = 1
            /\ ThreadCalls(a) # <<>> => a.thread \in 1..Len(threads)
            /\ \A i \in 1..Len(ThreadCalls(a)) : ThreadCalls(a)[i].thread_id = a.thread
            /\ a.run # 0 => runs[a.run].thread_id = a.thread
            /\ Len(threads) = Cardinality({q \in Reqs : ask[q].thread # 0})
            /\ \A q \in Reqs \ {r} :
                  a.thread # 0 =>
                    /\ ask[q].thread # a.thread
                    /\ \A i \in 1..Len(ThreadCalls(ask[q])) :
                          ThreadCalls(ask[q])[i].thread_id # a.thread

\* C12 witness: two requests were answered 200, each on its own thread, the
\* threads created in the order opposite to the order of the request ids.
C12_Witness ==
    /\ ask[1].thread = 2 /\ ask[2].thread = 1
    /\ \A r \in Pair :
          /\ Finished(ask[r]) /\ Status(ask[r]) = 200
          /\ Len(CallsOf(ask[r], "threads.create")) = 1
          /\ Len(CallsOf(ask[r], "messages.list")) = 1

\* The request has left both passes with its final reply: it is at the speech
\* steps, or it has been answered 200.
ReplySelected(a) ==
    \/ a.pc \in {"speech_create", "array_buffer"}
    \/ Finished(a) /\ Status(a) = 200

\* The reply as selected: the local while speech is pending, then the text field
\* of the response.
SelectedText(a) == IF Finished(a) THEN a.res[1].body.text ELSE a.reply

\* Pass 1 extracted a non-empty reply that is not shorter than the minimum (no
\* reply is shorter than a minimum that is NaN).
Pass1Accepted(a) ==
    /\ VectorReply(a) # Undefined
    /\ VectorReply(a)[1] # ""
    /\ ~JsLess(Len(VectorReply(a)[1]), fallbackReplyMinLength)

\* C13: from the moment the reply is selected until it is returned in a 200
\* response, it is: the reply Pass 1 extracted, which is the text of the latest
\* message of the thread, when Pass 1 was accepted; otherwise the non-empty text
\* of the latest message of the thread after Pass 2, or the placeholder when
\* that message is missing, has no text, or has an empty text.
C13_ResponseText ==
    \A r \in Reqs :
        LET a == ask[r]
            x == FirstText(ListLatest(a.thread))
        IN  ReplySelected(a) =>
              IF Pass1Accepted(a)
              THEN /\ SelectedText(a) = VectorReply(a)[1]
                   /\ x = Some(SelectedText(a))
                   /\ Pass2Runs(a) = <<>>
              ELSE /\ Len(Pass2Runs(a)) = 1
                   /\ SelectedText(a) = IF x = Undefined \/ x[1] = "" THEN Placeholder
                                        ELSE x[1]

\* C13 witness: Pass 1 extracted a reply below the minimum, the Pass 2 run added
\* an assistant message with an empty text, and the request was answered 200
\* with the placeholder.
C13_Witness ==
    \E r \in Reqs :
        LET a == ask[r]
        IN  /\ Finished(a) /\ Status(a) = 200
            /\ VectorReply(a) # Undefined /\ VectorReply(a)[1] # ""
            /\ FirstText(ListLatest(a.thread)) = Some("")
            /\ Len(threads[a.thread]) = 3
            /\ a.res[1].body.text = Placeholder

\* waitForRunCompletion is running in request r's handler.
Waiting(a) == a.pc \in {"retrieve_first", "sleep", "retrieve_loop", "submit_tool_outputs"}

\* The step is a status fetch of request r that returned.
Fetched(r) ==
    /\ Stepped(r)
    /\ ask[r].pc \in {"retrieve_first", "retrieve_loop"}
    /\ ~ask'[r].answer[1].threw

\* In the step the wait of request r returned to the pass that called it.
WaitReturned(r) ==
    /\ Stepped(r) /\ Waiting(ask[r])
    /\ ask'[r].pc \in {"pass1_messages_list", "pass2_messages_list"}

\* In the step the wait of request r threw: Pass 1 logged the error it caught,
\* or the route's catch answered 500 for Pass 2.
WaitThrew(r) ==
    /\ Stepped(r) /\ Waiting(ask[r])
    /\ IF ask[r].pass = 1
       THEN Len(Logged(ask'[r], "Error during PASS 1:"))
              = Len(Logged(ask[r], "Error during PASS 1:")) + 1
       ELSE Finished(ask'[r]) /\ Status(ask'[r]) = 500

\* The message of the error thrown for the run status fetched in the step.
StatusError(r) ==
    RunFailedMessage(ask[r].run, [status |-> ask'[r].answer[1].status,
                                  last_error |-> ask'[r].answer[1].last_error])

\* C14: in every step of waitForRunCompletion, (1) a fetch that returns failed,
\* expired or cancelled makes the wait throw, in Pass 2 with the 500 details
\* "Run <id> <status>. " followed by the code and message of the last_error the
\* fetch carried (or the no-details text), and the wait throws that error in
\* no other step; (2) the wait returns exactly in the steps whose fetch returns
\* a status outside the waiting set and the failure set.
C14_WaitOutcome ==
    [][\A r \in Reqs :
         (Stepped(r) /\ Waiting(ask[r])) =>
           LET fetched == Fetched(r)
               status  == ask'[r].answer[1].status
           IN  /\ (fetched /\ status \in FailureStatuses) =>
                     /\ WaitThrew(r)
                     /\ ask[r].pass = 2 => ask'[r].res[1].body.details = StatusError(r)
               /\ (WaitThrew(r) /\ ask[r].pass = 2
                      /\ ask'[r].res[1].body.details
                            \in {RunFailedMessage(ask[r].run, [status |-> s, last_error |-> e]) :
                                    s \in RunStatuses, e \in LastErrors})
                     => fetched /\ status \in FailureStatuses
               /\ WaitReturned(r) <=>
                     (fetched /\ status \notin WaitingStatuses \cup FailureStatuses)
      ]_vars

\* C14 witness: the Pass 2 run was fetched as cancelled with a last_error, and
\* the request was answered 500 with that status and error.
C14_Witness ==
    \E r \in Reqs :
        LET a == ask[r]
        IN  /\ Finished(a) /\ Status(a) = 500
            /\ a.answer[1].status = "cancelled"
            /\ a.answer[1].last_error # Undefined
            /\ a.res[1].body.details
                 = "Run 1 cancelled. Code: server_error, Message: Sorry, something went wrong."

\* The run status asks for tool outputs to be submitted.
RequiresToolOutputs(runStatus) ==
    /\ runStatus # Undefined
    /\ runStatus[1].status = "requires_action"
    /\ runStatus[1].required_action = Some("submit_tool_outputs")

\* C15 as stated: after every status fetch that returns requires_action with a
\* submit_tool_outputs action, the next call of the wait is the submission of
\* tool outputs, and after a fetch that returns anything else it is not.
C15_EveryFetchSubmits ==
    [][\A r \in Reqs :
         Fetched(r) =>
           (RequiresToolOutputs(ask'[r].runStatus) <=> ask'[r].pc = "submit_tool_outputs")
      ]_vars

\* C15 witness: the first fetch of a run returned requires_action with a
\* submit_tool_outputs action, and the handler sleeps before its second fetch
\* without having submitted anything.
C15_Witness ==
    \E r \in Reqs :
        LET a == ask[r]
        IN  /\ a.pc = "sleep"
            /\ Len(a.polls) = 1 /\ a.polls[1].op = "runs.retrieve"
            /\ RequiresToolOutputs(a.runStatus)

C17_EventuallyAnswered ==
    \A r \in Reqs :
        (ask[r].pc # "idle") ~>
            (Finished(ask[r]) /\ Len(ask[r].res) = 1 /\ Status(ask[r]) \in {400, 200, 500})

\* C17 witness: a request was answered 200 with audio after both passes, the
\* clarification and the speech call.
C17_Witness ==
    \E r \in Reqs :
        LET a == ask[r]
        IN  /\ Finished(a) /\ Status(a) = 200
            /\ Len(RunsCreated(a)) = 2
            /\ Len(Clarifications(a)) = 1
            /\ Len(SpeechCalls(a)) = 1
            /\ a.res[1].body.audio # Undefined

\* The texts of the messages of the given role in the request's thread.
TextsOfRole(a, role) ==
    IF a.thread = 0 THEN {}
    ELSE {threads[a.thread][i].content[1].text :
            i \in {j \in 1..Len(threads[a.thread]) :
                     /\ threads[a.thread][j].role = role
                     /\ threads[a.thread][j].content[1].type = "text"}}

\* C18 as stated: the reply of a request is at all times empty (nothing
\* extracted yet), the placeholder, or the text of an assistant message of its
\* thread, and so is the text field of its 200 response.
C18_ReplyIsAssistantText ==
    \A r \in Reqs :
        LET a == ask[r]
            allowed == {"", Placeholder} \cup TextsOfRole(a, "assistant")
        IN  /\ a.reply \in allowed
            /\ (Finished(a) /\ Status(a) = 200) => a.res[1].body.text \in allowed

\* C18 witness: the only run of the request ended without adding a message, and
\* the request was answered 200 with the user's own text as the reply.
C18_Witness ==
    \E r \in Reqs :
        LET a == ask[r]
        IN  /\ Finished(a) /\ Status(a) = 200
            /\ a.answer # Undefined
            /\ TextsOfRole(a, "assistant") = {}
            /\ a.res[1].body.text = a.userText[1]
            /\ Len(RunsCreated(a)) = 1

\* In the step the handler of request r leaves waitForRunCompletion.
LeavesWait(r) == Stepped(r) /\ Waiting(ask[r]) /\ ~Waiting(ask'[r])

\* In the step request r issues a runs.create call.
CreatesRun(r) == Len(RunsCreated(ask'[r])) = Len(RunsCreated(ask[r])) + 1

\* C19 as stated: the handler leaves the wait for the Pass 1 run, to go on to
\* the extraction or to Pass 2, only in a step whose status fetch returned a
\* status outside the waiting set.
C19_PolledToTerminal ==
    [][\A r \in Reqs :
         (LeavesWait(r) /\ ask[r].pass = 1) =>
           (Fetched(r) /\ ask'[r].answer[1].status \notin WaitingStatuses)
      ]_vars

\* C19 amended: a run that was created is waited for at once; the wait is left
\* only in a step whose fetch returned a non-waiting status, or whose fetch or
\* tool-output submission threw; no run is created while a wait is running; and
\* the Pass 2 run is created after a Pass 1 run only when Pass 1 has listed the
\* messages after its wait returned, or has caught an error.
C19_SequentialUnlessPollThrows ==
    [][\A r \in Reqs :
         Stepped(r) =>
           /\ (CreatesRun(r) /\ ~ask'[r].answer[1].threw) =>
                 ask'[r].pc = "retrieve_first" /\ ask'[r].run = Len(runs')
           /\ LeavesWait(r) =>
                 \/ Fetched(r) /\ ask'[r].answer[1].status \notin WaitingStatuses
                 \/ ask'[r].answer[1].threw
           /\ CreatesRun(r) => ~Waiting(ask[r])
           /\ (CreatesRun(r) /\ Pass1Runs(ask[r]) # <<>>) =>
                 \/ Logged(ask[r], "Vector reply:") # <<>>
                 \/ Logged(ask[r], "Error during PASS 1:") # <<>>
      ]_vars

\* C19 witness: the Pass 1 run was polled until its wait returned and its reply
\* was extracted; the Pass 2 run has been created and is being polled.
C19_Witness ==
    \E r \in Reqs :
        LET a == ask[r]
        IN  /\ VectorReply(a) # Undefined
            /\ Len(Pass1Runs(a)) = 1 /\ Len(Pass2Runs(a)) = 1
            /\ a.pass = 2 /\ a.pc = "sleep"
            /\ a.run = 2

\* C20: a step of one request's handler leaves the locals of every other
\* request, the thread of every other request, the runs created so far and the
\* configuration as they are; the thread of a request holds no user text but
\* its own, one user message per message it appended and at most one assistant
\* message per run it created; and the text of its 200 response is the one its
\* own thread gives, as when it runs alone.
C20_RequestsIndependent ==
    [][\A r \in Reqs :
         Stepped(r) =>
           LET a  == ask'[r]
               ms == IF a.thread = 0 THEN <<>> ELSE threads'[a.thread]
               x  == FirstText([data |-> IF ms = <<>> THEN <<>> ELSE <<ms[Len(ms)]>>])
           IN  /\ \A q \in Reqs \ {r} :
                     /\ ask'[q] = ask[q]
                     /\ ask[q].thread # 0 =>
                           threads'[ask[q].thread] = threads[ask[q].thread]
               /\ \A i \in 1..Len(runs) : runs'[i] = runs[i]
               /\ config' = config
               /\ \A i \in 1..Len(ms) :
                     ms[i].role = "user" => ms[i].content[1].text = a.userText[1]
               /\ a.thread # 0 =>
                     Cardinality({i \in 1..Len(ms) : ms[i].role = "user"})
                       = Len(CallsOf(a, "messages.create"))
                         - (IF LastCall(a).op = "messages.create" /\ a.answer[1].threw
                            THEN 1 ELSE 0)
               /\ Cardinality({i \in 1..Len(ms) : ms[i].role = "assistant"})
                     <= Len(RunsCreated(a))
               /\ (Finished(a) /\ Status(a) = 200) =>
                     a.res[1].body.text = IF x = Undefined \/ x[1] = "" THEN Placeholder
                                          ELSE x[1]
      ]_vars

\* C20 witness: two requests with different texts were both answered 200, with
\* different replies, after their steps interleaved: the threads were created
\* in one order and the runs in the other.
C20_Witness ==
    /\ \A r \in Pair : Finished(ask[r]) /\ Status(ask[r]) = 200
    /\ ask[1].userText # ask[2].userText
    /\ ask[1].thread = 1 /\ ask[2].thread = 2
    /\ ask[1].run = 2 /\ ask[2].run = 1
    /\ ask[1].res[1].body.text = "a"
    /\ ask[2].res[1].body.text = "aa"

\* C21: a request issues at most one speech call; the call is the last call on
\* its record, issued when no wait is running and no pass is open, after every
\* runs.create and every messages.list of the request; its input is the reply
\* of the handler, and the text field of the 200 response once that is sent.
C21_OneSpeechCallOnFinalReply ==
    \A r \in Reqs :
        LET a == ask[r]
        IN  /\ Len(SpeechCalls(a)) <= 1
            /\ SpeechCalls(a) # <<>> =>
                  /\ LastCall(a).op = "audio.speech.create"
                  /\ a.pass = 0 /\ a.polls = <<>> /\ a.runStatus = Undefined
                  /\ a.pc \in {"array_buffer", "done"}
                  /\ Len(RunsCreated(a)) >= 1
                  /\ Len(CallsOf(a, "messages.list")) >= 1
                  /\ SpeechCalls(a)[1].arg = a.reply
                  /\ Finished(a) => /\ a.res[1].status = 200
                                     /\ SpeechCalls(a)[1].arg = a.res[1].body.text

\* C21 witness: after two passes the placeholder was selected, spoken in one
\* speech call and returned with its audio.
C21_Witness ==
    \E r \in Reqs :
        LET a == ask[r]
        IN  /\ Finished(a) /\ Status(a) = 200
            /\ Len(Pass1Runs(a)) = 1 /\ Len(Pass2Runs(a)) = 1
            /\ Len(SpeechCalls(a)) = 1
            /\ SpeechCalls(a)[1].arg = Placeholder
            /\ a.res[1].body.text = Placeholder
            /\ a.res[1].body.audio # Undefined

\* C22: when the API key or the assistant id is absent the server never
\* listens, no request of either route is ever handled, and the service holds
\* no thread and no run; and once start-up is over the process has exited.
C22_MissingConfigHaltsStartup ==
    (Falsy(apiKey) \/ Falsy(assistantId)) =>
        /\ server \in {"starting", "exited"}
        /\ \A r \in Reqs : ask[r] = InitialAsk /\ token[r] = InitialToken
        /\ threads = <<>> /\ runs = <<>>

\* C22 witness: the API key is set, the assistant id is not, and the process
\* has exited at start-up.
C22_Witness ==
    /\ ~Falsy(apiKey) /\ Falsy(assistantId)
    /\ server = "exited"

\* C23: no request ever has more than one response, and once a response has
\* been sent the handler of the request takes no further step.
C23_AtMostOneResponse ==
    [][\A r \in Reqs :
         /\ Len(ask'[r].res) <= 1
         /\ ask[r].res # <<>> => ask'[r] = ask[r]
         /\ ask'[r].res # <<>> => ask'[r].pc = "done"
      ]_vars

\* C23 witness: Pass 1 ended in an error that was caught, Pass 2 failed, and
\* the request has the one 500 response of the route's catch.
C23_Witness ==
    \E r \in Reqs :
        LET a == ask[r]
        IN  /\ Logged(a, "Error during PASS 1:") # <<>>
            /\ Len(Pass2Runs(a)) = 1
            /\ Len(a.res) = 1 /\ a.res[1].status = 500

\* C24: whatever the minimum lengths, the text field of a 200 response is not
\* empty, and the reply is not empty once it is final: an empty Pass 1 reply
\* has always been followed by the fallback.
C24_ResponseTextNotEmpty ==
    \A r \in Reqs :
        LET a == ask[r]
        IN  /\ (Finished(a) /\ Status(a) = 200) => a.res[1].body.text # ""
            /\ a.pc \in {"speech_create", "array_buffer"} => a.reply # ""
            /\ (VectorReply(a) = Some("") /\ a.pc # "pass1_messages_list") => FellBack(a)

\* C24 witness: with a minimum length of 0, Pass 1 extracted an empty reply,
\* Pass 2 ran, extracted an empty text as well, and the 200 response carries
\* the placeholder.
C24_Witness ==
    \E r \in Reqs :
        LET a == ask[r]
        IN  /\ fallbackReplyMinLength = Num(0)
            /\ VectorReply(a) = Some("")
            /\ Len(Pass2Runs(a)) = 1
            /\ FirstText(ListLatest(a.thread)) = Some("")
            /\ Finished(a) /\ Status(a) = 200
            /\ a.res[1].body.text = Placeholder

\* The events one sendTextMessage(message) sends, in order.
TextMessageEvents(message) ==
    <<[type |-> "conversation.item.create", text |-> Some(message)],
      [type |-> "response.create", text |-> Undefined]>>

\* The startSession invocations that have not returned or thrown.
InFlight(c) == {s \in Sessions : c.sessions[s] \notin {"idle", "returned", "threw"}}

\* C25: each sendTextMessage call made while a data channel exists appends
\* exactly one user bubble to the transcript and sends exactly two events on
\* that channel, a conversation.item.create with the message text and then a
\* response.create; and the session controls call it with no message that is
\* empty or whitespace only.
C25_SendTextMessage ==
    [][Len(client'.calls) = Len(client.calls) + 1 =>
         LET k == client'.calls[Len(client'.calls)]
             d == k.dataChannel
             before == IF k.from = "open" THEN <<>> ELSE client.transcriptBubbles
         IN  /\ k.from # "open" => Trim(k.message) # <<>>
             /\ d # Null =>
                  /\ client'.transcriptBubbles =
                         Append(before, [text |-> k.message, sender |-> "user"])
                  /\ client'.channels[d].sent =
                         client.channels[d].sent \o TextMessageEvents(k.message)]_vars

\* C25 witness: the session controls called sendTextMessage with a channel
\* that was no longer open, so the transcript shows the message and the
\* channel was sent the greeting only.
C25_Witness ==
    /\ client.calls # <<>>
    /\ LET k == client.calls[Len(client.calls)]
       IN  /\ k.from \in {"onKeyDown", "onClick"}
           /\ k.dataChannel # Null
           /\ client.channels[k.dataChannel].readyState = "closed"
           /\ client.channels[k.dataChannel].sent = TextMessageEvents(Greeting)
           /\ client.transcriptBubbles # <<>>
           /\ client.transcriptBubbles[Len(client.transcriptBubbles)] =
                  [text |-> k.message, sender |-> "user"]

\* C26: while no session is active, the clicks on the overlay and on the
\* start-session button leave at most one startSession invocation in flight,
\* hence at most one token fetch awaited and one peer connection being set up.
C26_OneStartInFlight ==
    ~client.isSessionActive => Cardinality(InFlight(client)) <= 1

\* C26 witness: no session is active or was stopped, and two startSession
\* invocations are in flight, each past its token fetch and with a peer
\* connection of its own.
C26_Witness ==
    /\ ~client.isSessionActive
    /\ \E s, t \in InFlight(client) :
         /\ s # t
         /\ client.pcs[s] = "open"
         /\ client.pcs[t] = "open"
    /\ \A s \in Sessions : client.pcs[s] # "closed"

====
